---- MODULE Spec2Model ----
(***************************************************************************)
(* BlitzBoat dashboard (src/web/app.js): the daily-password gate, the      *)
(* snapshot loader, the dashboard renderer and the race selector, as a     *)
(* state machine over the page's DOM, sessionStorage and the suspended     *)
(* async handlers.                                                         *)
(*                                                                         *)
(* Units: a probability p in [0,1] is held as the integer 1000*p, a date   *)
(* as a day number, a venue code ('01', '22', ...) as its number with 0    *)
(* for the empty string, a password or a typed input as a sequence of      *)
(* one-character strings.                                                  *)
(***************************************************************************)
EXTENDS Integers, Sequences, FiniteSets, TLC

\* ------------------------------------------------------------- bounds
\* Calendar days the clock can reach.
MaxDay == 2
\* Loads (loadDailyData activations) that can be in flight together.
MaxLoads == 2
\* Submit handlers suspended at the digest await together.
MaxPending == 2
\* Error-clear timers pending together.
MaxTimers == 2

\* ---------------------------------------------------------- constants
\* setTimeout delay of the error clear, in seconds.
ErrorClearDelay == 3
\* Marker of a field that is absent from the JSON.
Absent == -1
\* Marker of a DOM text the scripts have not written yet.
Unset == -2
\* The empty venue code ''.
NoVenue == 0
\* sessionStorage.getItem returning null.
NoFlag == 0

Days == 1..MaxDay
LoadIds == 1..MaxLoads

\* ------------------------------------------------------- Digest utility
\* Leading hex digits of SHA-256(YYYYMMDD + AUTH_SECRET), one table entry
\* per day (the digest itself is not computed here; distinct dates give
\* distinct digests, and a digest holds hex digits only).
HashHex(day) ==
    IF day = 1 THEN <<"3", "f", "a", "0", "7", "c", "2", "e", "9", "1">>
    ELSE IF day = 2 THEN <<"c", "1", "7", "b", "4", "4", "d", "0", "6", "a">>
    ELSE IF day = 3 THEN <<"9", "e", "0", "5", "f", "8", "1", "3", "b", "7">>
    ELSE <<"5", "2", "d", "9", "a", "6", "e", "f", "0", "3">>

\* hashHex.slice(0, 8)
PasswordLen == 8

generateDailyPassword(day) == SubSeq(HashHex(day), 1, PasswordLen)

IsSpace(c) == c = " "

RECURSIVE TrimStart(_)
TrimStart(s) ==
    IF s # <<>> /\ IsSpace(Head(s)) THEN TrimStart(Tail(s)) ELSE s

RECURSIVE TrimEnd(_)
TrimEnd(s) ==
    IF s # <<>> /\ IsSpace(s[Len(s)]) THEN TrimEnd(SubSeq(s, 1, Len(s) - 1)) ELSE s

\* String.prototype.trim
Trim(s) == TrimEnd(TrimStart(s))

\* What a user types into auth-password.
Inputs ==
    { generateDailyPassword(1),
      <<" ">> \o generateDailyPassword(1) \o <<" ">>,
      SubSeq(generateDailyPassword(1), 1, 4) \o <<" ">>
          \o SubSeq(generateDailyPassword(1), 5, PasswordLen),
      generateDailyPassword(2),
      <<"0", "0", "0", "0", "0", "0", "0", "0">> }

\* ------------------------------------------------------------ snapshots
Race(venue, prob, hasTickets, tickets) ==
    [isNull |-> FALSE, venue |-> venue, boat1_win_prob |-> prob,
     hasTickets |-> hasTickets, tickets |-> tickets]

\* A JSON null in place of a race object.
NullRace ==
    [isNull |-> TRUE, venue |-> NoVenue, boat1_win_prob |-> Absent,
     hasTickets |-> FALSE, tickets |-> <<>>]

Snapshot(total, hasRaces, races, stats) ==
    [isNull |-> FALSE, total_races |-> total, hasRaces |-> hasRaces,
     chance_races |-> races, venue_stats_summary |-> stats]

\* JSON null as the whole payload; also the initial value of currentData.
NullData ==
    [isNull |-> TRUE, total_races |-> Absent, hasRaces |-> FALSE,
     chance_races |-> <<>>, venue_stats_summary |-> <<>>]

\* venue_stats_summary: a sequence of [code, top_patterns] entries, one per
\* key of the object; top_patterns holds each pattern's prob.
Venue(code, patterns) == [code |-> code, top_patterns |-> patterns]

getDemoData ==
    Snapshot(144, TRUE,
        << Race(1, 220, TRUE, <<6300, 5000, 4200, 3700, 3200, 2900, 2500, 2200>>),
           Race(22, 280, TRUE, <<>>) >>,
        << Venue(1, <<82, 65, 55, 48, 42, 38, 32, 28, 25, 22>>),
           Venue(22, <<75, 68, 52>>) >>)

\* Payloads a candidate file can parse to.
\*   PNull  null
\*   PNone  {}
\*   PZero  two races: boat1_win_prob 0 with tickets, 0.5 without a tickets
\*          field; the second race's venue has an empty top_patterns
\*   PBad   a race (no venue, no boat1_win_prob) followed by a null entry
\*          in chance_races
\* Indices handed to selectRace: those of the longest chance_races and the
\* one past its end.
MaxIndex == Len(getDemoData.chance_races)

PayloadNames == {"PNull", "PNone", "PZero", "PBad"}

Data(name) ==
    IF name = "PNull" THEN NullData
    ELSE IF name = "PNone" THEN Snapshot(Absent, FALSE, <<>>, <<>>)
    ELSE IF name = "PZero" THEN
        Snapshot(12, TRUE,
            << Race(22, 0, TRUE, <<1000, 500>>),
               Race(5, 500, FALSE, <<>>) >>,
            << Venue(22, <<90, 40>>), Venue(5, <<>>) >>)
    ELSE IF name = "PBad" THEN
        Snapshot(3, TRUE, << Race(NoVenue, Absent, TRUE, <<700>>), NullRace >>, <<>>)
    ELSE getDemoData

\* ------------------------------------------------------------------ DOM
\* The page's elements the scripts write, as one record:
\*   overlayHidden, dashHidden, bannerHidden   class 'hidden' of auth-overlay,
\*                                             dashboard, alert-banner
\*   headerDate                                header-date
\*   statChance, statTotal, statLowest, statTickets   the four stats
\*   alertCount, alertLowest                   the two numbers of alert-text
\*   cards                                     chance-races
\*   options, selectValue                      venue-select
\*   ranking                                   ranking-table
\*   ticketList                                ticket-list
\*   authError, password                       auth-error, auth-password
EmptyPanel(kind) == [kind |-> kind, rows |-> <<>>, total |-> 0]

\* The page as its markup delivers it, before any script has run: no stat,
\* card, ranking or ticket written, the alert banner hidden.
InitialDom ==
    [overlayHidden |-> FALSE, dashHidden |-> TRUE, bannerHidden |-> TRUE,
     headerDate |-> Unset,
     statChance |-> Unset, statTotal |-> Unset, statLowest |-> Unset,
     statTickets |-> Unset, alertCount |-> Unset, alertLowest |-> Unset,
     cards |-> EmptyPanel("init"),
     options |-> <<>>, selectValue |-> NoVenue,
     ranking |-> EmptyPanel("init"),
     ticketList |-> EmptyPanel("init"),
     authError |-> FALSE, password |-> <<>>]

\* (x * 100).toFixed(0) of a probability x held as 1000*x.
Percent(p) == (p + 5) \div 10

Min(a, b) == IF a < b THEN a ELSE b

RECURSIVE SumSeq(_)
SumSeq(s) == IF s = <<>> THEN 0 ELSE Head(s) + SumSeq(Tail(s))

\* data.chance_races || []
ChanceRacesOf(data) == IF data.hasRaces THEN data.chance_races ELSE <<>>

\* r.boat1_win_prob || 1 : undefined and 0 are both falsy.
ProbOrOne(r) ==
    IF r.boat1_win_prob = Absent \/ r.boat1_win_prob = 0 THEN 1000
    ELSE r.boat1_win_prob

\* Math.min(...chanceRaces.map(r => r.boat1_win_prob || 1))
RECURSIVE LowestProb(_)
LowestProb(races) ==
    IF Len(races) = 1 THEN ProbOrOne(Head(races))
    ELSE Min(ProbOrOne(Head(races)), LowestProb(Tail(races)))

\* r.tickets ? r.tickets.length : 0, summed ([] is truthy).
RECURSIVE TotalTickets(_)
TotalTickets(races) ==
    IF races = <<>> THEN 0
    ELSE (IF Head(races).hasTickets THEN Len(Head(races).tickets) ELSE 0)
         + TotalTickets(Tail(races))

\* One card per race, in order: the venue and ((prob || 0) * 100).toFixed(0).
CardOf(race) ==
    [venue |-> race.venue,
     winProb |-> Percent(IF race.boat1_win_prob = Absent THEN 0
                         ELSE race.boat1_win_prob)]

renderChanceRaces(d, races) ==
    IF Len(races) = 0 THEN [d EXCEPT !.cards = EmptyPanel("empty")]
    ELSE [d EXCEPT !.cards =
            [kind |-> "cards",
             rows |-> [i \in 1..Len(races) |-> CardOf(races[i])],
             total |-> Len(races)]]

\* Object.keys(statsMap).sort(): the codes in ascending order.
RECURSIVE SortCodes(_)
SortCodes(S) ==
    IF S = {} THEN <<>>
    ELSE LET m == CHOOSE x \in S : \A y \in S : x <= y
         IN <<m>> \o SortCodes(S \ {m})

StatCodes(stats) == {stats[i].code : i \in 1..Len(stats)}

\* select.innerHTML = placeholder + one option per venue: the options are
\* replaced and the selection falls back to the placeholder.
renderVenueSelector(d, stats) ==
    [d EXCEPT !.options = SortCodes(StatCodes(stats)), !.selectValue = NoVenue]

\* renderVenueRanking reads the held snapshot cur, not the one on screen.
renderVenueRanking(d, cur, jcd) ==
    IF jcd = NoVenue \/ cur.isNull \/ jcd \notin StatCodes(cur.venue_stats_summary)
    THEN [d EXCEPT !.ranking = EmptyPanel("nodata")]
    ELSE LET e == CHOOSE x \in {cur.venue_stats_summary[i] :
                                  i \in 1..Len(cur.venue_stats_summary)} :
                      x.code = jcd
         IN IF Len(e.top_patterns) = 0
            THEN [d EXCEPT !.ranking = EmptyPanel("norank")]
            ELSE [d EXCEPT !.ranking =
                    [kind |-> "table", rows |-> e.top_patterns, total |-> jcd]]

renderTickets(d, tickets) ==
    IF Len(tickets) = 0 THEN [d EXCEPT !.ticketList = EmptyPanel("empty")]
    ELSE [d EXCEPT !.ticketList =
            [kind |-> "tickets", rows |-> tickets, total |-> SumSeq(tickets)]]

\* The stats block of renderDashboard that runs when chance_races is not
\* empty: lowest, ticket count, banner and alert text.
RenderStats(d, races) ==
    [d EXCEPT !.statLowest = Percent(LowestProb(races)),
              !.statTickets = TotalTickets(races),
              !.bannerHidden = FALSE,
              !.alertCount = Len(races),
              !.alertLowest = Percent(LowestProb(races))]

\* renderDashboard(data) on page d: the page it leaves and whether it threw.
\* A null payload throws at data.chance_races with nothing written; a null
\* entry of chance_races throws in the map of the lowest probability, after
\* stat-chance and stat-total were written.
renderDashboard(d, data) ==
    IF data.isNull THEN [dom |-> d, threw |-> TRUE]
    ELSE LET chanceRaces == ChanceRacesOf(data)
             totalRaces == IF data.total_races = Absent THEN 0 ELSE data.total_races
             d1 == [d EXCEPT !.statChance = Len(chanceRaces),
                             !.statTotal = totalRaces]
         IN IF Len(chanceRaces) > 0
            THEN IF \E i \in 1..Len(chanceRaces) : chanceRaces[i].isNull
                 THEN [dom |-> d1, threw |-> TRUE]
                 ELSE [dom |-> renderVenueSelector(
                                  renderChanceRaces(RenderStats(d1, chanceRaces),
                                                    chanceRaces),
                                  data.venue_stats_summary),
                       threw |-> FALSE]
            ELSE [dom |-> renderVenueSelector(renderChanceRaces(d1, chanceRaces),
                                              data.venue_stats_summary),
                  threw |-> FALSE]

\* venueSelect.value = v: an option with that value becomes selected; with
\* no such option none is, and value reads ''.
SetSelectValue(d, v) ==
    [d EXCEPT !.selectValue =
        IF v = NoVenue \/ \E i \in 1..Len(d.options) : d.options[i] = v
        THEN v ELSE NoVenue]

\* Mutant of selectRace: the ticket list is cleared before the race is
\* looked up.
selectRaceClearsFirst(d, cur, index) ==
    IF cur.isNull \/ ~cur.hasRaces THEN d
    ELSE IF index + 1 \notin 1..Len(cur.chance_races)
         THEN renderTickets(d, <<>>)
    ELSE LET race == cur.chance_races[index + 1]
         IN IF race.isNull THEN d
            ELSE LET d1 == IF race.hasTickets THEN renderTickets(d, race.tickets)
                           ELSE d
                 IN renderVenueRanking(SetSelectValue(d1, race.venue), cur,
                                       race.venue)

\* selectRace(index) on page d with held snapshot cur (index from 0).
selectRace(d, cur, index) ==
    IF cur.isNull \/ ~cur.hasRaces THEN d
    ELSE IF index + 1 \notin 1..Len(cur.chance_races) THEN d
    ELSE LET race == cur.chance_races[index + 1]
         IN IF race.isNull THEN d
            ELSE LET d1 == IF race.hasTickets THEN renderTickets(d, race.tickets)
                           ELSE d
                 IN renderVenueRanking(SetSelectValue(d1, race.venue), cur,
                                       race.venue)

\* ---------------------------------------------------------------- state
VARIABLES
    today,        \* the calendar day new Date() reports
    flag,         \* sessionStorage 'blitzboat_auth': NoFlag or a day
    subs,         \* submit handlers suspended at the digest await
    timers,       \* pending error-clear timeouts: seconds left, oldest first
    loadPc,       \* per load: "idle", "fetch", "json", "done", "failed"
    loadCand,     \* per load: index into urls of the candidate being read
    loadFirst,    \* per load: what became of the first candidate (history)
    currentData,  \* the module-level currentData
    dom,          \* the page
    unlockedOn,   \* history: day of the session's last successful submission
    ev            \* history: the handler that ran last and its inputs

vars == <<today, flag, subs, timers, loadPc, loadCand, loadFirst,
          currentData, dom, unlockedOn, ev>>

Ev(op, n, out, input, rendered) ==
    [op |-> op, n |-> n, out |-> out, input |-> input, rendered |-> rendered]

\* urls of loadDailyData, in the order they are tried.
urls == <<"daily", "latest">>

\* Mutant of IsUnlocked: any stored flag unlocks, whatever its date.
IsUnlockedAnyDay(stored, todayKey) == stored # NoFlag

\* stored === todayKey
IsUnlocked(stored, todayKey) == stored = todayKey

\* Mutant of AuthMatches: the field value is compared untrimmed.
AuthMatchesUntrimmed(input, expected) == input = expected

\* input === expected, input being the trimmed field value
AuthMatches(input, expected) == Trim(input) = expected

\* showDashboard followed by initDashboard up to the call of loadDailyData.
showDashboard(d, day) ==
    [d EXCEPT !.overlayHidden = TRUE, !.dashHidden = FALSE, !.headerDate = day]

\* The locked branch of checkAuth.
ShowPrompt(d) == [d EXCEPT !.overlayHidden = FALSE, !.dashHidden = TRUE]

\* The mismatch branch of the submit handler, the timer apart.
ShowAuthError(d) == [d EXCEPT !.authError = TRUE, !.password = <<>>]

FreeLoads(pc) == {l \in LoadIds : pc[l] \in {"idle", "done", "failed"}}

\* loadDailyData up to its first await: a new load waits for urls[1].
StartLoad(pc) ==
    /\ FreeLoads(pc) # {}
    /\ LET l == CHOOSE x \in FreeLoads(pc) : \A y \in FreeLoads(pc) : x <= y
       IN /\ loadPc' = [pc EXCEPT ![l] = "fetch"]
          /\ loadCand' = [loadCand EXCEPT ![l] = 1]
          /\ loadFirst' = [loadFirst EXCEPT ![l] = "none"]

NoLoadChange == UNCHANGED <<loadPc, loadCand, loadFirst>>

\* The loop of loadDailyData after a candidate was given up (the catch, or
\* resp.ok false): the next candidate's fetch, or after the last one the
\* render of the demo data, which is outside the try.
Fallthrough(d, cur, cand, out) ==
    IF cand < Len(urls)
    THEN [dom |-> d, cur |-> cur, pc |-> "fetch", cand |-> cand + 1,
          first |-> out, rendered |-> "none"]
    ELSE LET r == renderDashboard(d, getDemoData)
         IN [dom |-> r.dom, cur |-> getDemoData,
             pc |-> IF r.threw THEN "failed" ELSE "done",
             cand |-> cand, first |-> "none", rendered |-> "demo"]

\* Mutant of UsePayload: the render runs outside the try, so its throw
\* rejects the load.
UsePayloadUncaught(d, cand, name) ==
    LET r == renderDashboard(d, Data(name))
    IN [dom |-> r.dom, cur |-> Data(name),
        pc |-> IF r.threw THEN "failed" ELSE "done", cand |-> cand,
        first |-> "none", rendered |-> IF r.threw THEN "none" ELSE name]

\* currentData = await resp.json(); renderDashboard(currentData); return;
\* inside the try: a throw of the render is caught like a failed read.
UsePayload(d, cand, name) ==
    LET r == renderDashboard(d, Data(name))
    IN IF r.threw THEN Fallthrough(r.dom, Data(name), cand, name)
       ELSE [dom |-> r.dom, cur |-> Data(name), pc |-> "done", cand |-> cand,
             first |-> "none", rendered |-> name]

ApplyLoad(l, res) ==
    /\ dom' = res.dom
    /\ currentData' = res.cur
    /\ loadPc' = [loadPc EXCEPT ![l] = res.pc]
    /\ loadCand' = [loadCand EXCEPT ![l] = res.cand]
    /\ loadFirst' = [loadFirst EXCEPT ![l] = res.first]

Init ==
    /\ today = 1
    /\ flag = NoFlag
    /\ subs = <<>>
    /\ timers = <<>>
    /\ loadPc = [l \in LoadIds |-> "idle"]
    /\ loadCand = [l \in LoadIds |-> 1]
    /\ loadFirst = [l \in LoadIds |-> "none"]
    /\ currentData = NullData
    /\ dom = ShowPrompt(InitialDom)
    /\ unlockedOn = NoFlag
    /\ ev = Ev("checkAuth", NoFlag, "locked", <<>>, "none")

\* The user types input into the form on show and submits: the handler
\* reads the field, starts the digest for the date of that moment and
\* suspends.
SubmitStart(input) ==
    /\ ~dom.overlayHidden
    /\ Len(subs) < MaxPending
    /\ subs' = Append(subs, [input |-> input, date |-> today])
    /\ dom' = [dom EXCEPT !.password = input]
    /\ ev' = Ev("submit", today, "none", input, "none")
    /\ UNCHANGED <<today, flag, timers, loadPc, loadCand, loadFirst,
                   currentData, unlockedOn>>

RemoveAt(s, k) == SubSeq(s, 1, k - 1) \o SubSeq(s, k + 1, Len(s))

\* The digest of submission k settles and its handler runs to the end.
SubmitResume(k) ==
    /\ k \in 1..Len(subs)
    /\ subs' = RemoveAt(subs, k)
    /\ IF AuthMatches(subs[k].input, generateDailyPassword(subs[k].date))
       THEN /\ flag' = today
            /\ unlockedOn' = today
            /\ dom' = showDashboard(dom, today)
            /\ StartLoad(loadPc)
            /\ UNCHANGED <<timers, currentData>>
       ELSE /\ Len(timers) < MaxTimers
            /\ dom' = ShowAuthError(dom)
            /\ timers' = Append(timers, ErrorClearDelay)
            /\ NoLoadChange
            /\ UNCHANGED <<flag, unlockedOn, currentData>>
    /\ ev' = Ev("unlock", subs[k].date, "none", subs[k].input, "none")
    /\ UNCHANGED today

\* A second passes with no timeout due.
TimePass ==
    /\ timers # <<>>
    /\ \A i \in 1..Len(timers) : timers[i] > 0
    /\ timers' = [i \in 1..Len(timers) |-> timers[i] - 1]
    /\ ev' = Ev("second", 0, "none", <<>>, "none")
    /\ UNCHANGED <<today, flag, subs, loadPc, loadCand, loadFirst,
                   currentData, dom, unlockedOn>>

\* The oldest timeout is due: errorEl.textContent = ''.
TimerFire ==
    /\ timers # <<>>
    /\ Head(timers) = 0
    /\ timers' = Tail(timers)
    /\ dom' = [dom EXCEPT !.authError = FALSE]
    /\ ev' = Ev("timer", 0, "none", <<>>, "none")
    /\ UNCHANGED <<today, flag, subs, loadPc, loadCand, loadFirst,
                   currentData, unlockedOn>>

\* Midnight.
DayTick ==
    /\ today < MaxDay
    /\ today' = today + 1
    /\ ev' = Ev("day", today + 1, "none", <<>>, "none")
    /\ UNCHANGED <<flag, subs, timers, loadPc, loadCand, loadFirst,
                   currentData, dom, unlockedOn>>

FetchOutcomes == {"neterr", "notok", "ok"}

\* await fetch(url) of load l settles: it throws, or answers with a status.
FetchSettle(l, out) ==
    /\ loadPc[l] = "fetch"
    /\ IF out = "ok"
       THEN /\ loadPc' = [loadPc EXCEPT ![l] = "json"]
            /\ UNCHANGED <<loadCand, loadFirst, currentData, dom>>
       ELSE ApplyLoad(l, Fallthrough(dom, currentData, loadCand[l], "fail"))
    /\ ev' = Ev("fetch", l, out, <<>>,
                IF out # "ok" /\ loadCand[l] = Len(urls) THEN "demo" ELSE "none")
    /\ UNCHANGED <<today, flag, subs, timers, unlockedOn>>

\* await resp.json() of load l settles: it throws, or yields a payload.
JsonSettle(l, out) ==
    /\ loadPc[l] = "json"
    /\ LET res == IF out = "malformed"
                  THEN Fallthrough(dom, currentData, loadCand[l], "fail")
                  ELSE UsePayload(dom, loadCand[l], out)
       IN /\ ApplyLoad(l, res)
          /\ ev' = Ev("json", l, out, <<>>, res.rendered)
    /\ UNCHANGED <<today, flag, subs, timers, unlockedOn>>

\* The user clicks the card at position index of the list on screen.
ClickCard(index) ==
    /\ dom.cards.kind = "cards"
    /\ index < dom.cards.total
    /\ dom' = selectRace(dom, currentData, index)
    /\ ev' = Ev("click", index, "none", <<>>, "none")
    /\ UNCHANGED <<today, flag, subs, timers, loadPc, loadCand, loadFirst,
                   currentData, unlockedOn>>

\* selectRace(index) called with any index.
CallSelectRace(index) ==
    /\ dom' = selectRace(dom, currentData, index)
    /\ ev' = Ev("select", index, "none", <<>>, "none")
    /\ UNCHANGED <<today, flag, subs, timers, loadPc, loadCand, loadFirst,
                   currentData, unlockedOn>>

\* The user picks another option of venue-select: the change listener.
ChangeVenue(v) ==
    /\ v # dom.selectValue
    /\ v = NoVenue \/ \E i \in 1..Len(dom.options) : dom.options[i] = v
    /\ dom' = renderVenueRanking([dom EXCEPT !.selectValue = v], currentData, v)
    /\ ev' = Ev("venue", v, "none", <<>>, "none")
    /\ UNCHANGED <<today, flag, subs, timers, loadPc, loadCand, loadFirst,
                   currentData, unlockedOn>>

\* The page is loaded again in the same session: every suspended handler
\* and timer is gone with the old page, sessionStorage stays, and the
\* script runs checkAuth.
Reload ==
    /\ subs' = <<>>
    /\ timers' = <<>>
    /\ currentData' = NullData
    /\ IF IsUnlocked(flag, today)
       THEN /\ dom' = showDashboard(InitialDom, today)
            /\ StartLoad([l \in LoadIds |-> "idle"])
       ELSE /\ dom' = ShowPrompt(InitialDom)
            /\ loadPc' = [l \in LoadIds |-> "idle"]
            /\ loadCand' = [l \in LoadIds |-> 1]
            /\ loadFirst' = [l \in LoadIds |-> "none"]
    /\ ev' = Ev("checkAuth", flag,
                IF IsUnlocked(flag, today) THEN "unlocked" ELSE "locked",
                <<>>, "none")
    /\ UNCHANGED <<today, flag, unlockedOn>>

\* What the user types while the gate is exercised.
GateInputs == Inputs

\* What the user types while the dashboard is exercised: today's password.
DashInputs == {generateDailyPassword(1)}

\* The gate: submissions, the error timer, midnight, reloads; every read of
\* a started load fails at the network.
Next ==
    \/ \E input \in GateInputs : SubmitStart(input)
    \/ \E k \in 1..MaxPending : SubmitResume(k)
    \/ TimePass
    \/ TimerFire
    \/ DayTick
    \/ \E l \in LoadIds : FetchSettle(l, "neterr")
    \/ Reload

Spec == Init /\ [][Next]_vars

\* The dashboard of one page: the user unlocks with today's password (twice
\* in a row starts overlapping loads), the reads settle in any way and the
\* user clicks cards and picks venues.
DashNext ==
    \/ \E input \in DashInputs : SubmitStart(input)
    \/ \E k \in 1..MaxPending : SubmitResume(k)
    \/ \E l \in LoadIds, out \in FetchOutcomes : FetchSettle(l, out)
    \/ \E l \in LoadIds, out \in PayloadNames \cup {"malformed"} : JsonSettle(l, out)
    \/ \E index \in 0..MaxIndex : ClickCard(index)
    \/ \E index \in 0..MaxIndex : CallSelectRace(index)
    \/ \E v \in {NoVenue, 1, 5, 22} : ChangeVenue(v)

DashSpec == Init /\ [][DashNext]_vars

\* One step of load l: the read it waits for settles.
LoadStep(l) ==
    \/ \E out \in FetchOutcomes : FetchSettle(l, out)
    \/ \E out \in PayloadNames \cup {"malformed"} : JsonSettle(l, out)

\* The loads of one page alone: the user unlocks, and the reads settle.
LoadNext ==
    \/ \E input \in DashInputs : SubmitStart(input)
    \/ \E k \in 1..MaxPending : SubmitResume(k)
    \/ \E l \in LoadIds : LoadStep(l)

\* Every issued read eventually settles.
LiveSpec ==
    /\ Init
    /\ [][LoadNext]_vars
    /\ \A l \in LoadIds : WF_vars(LoadStep(l))

\* --------------------------------------------------------------- claims
\* A step started a load: a load that was not waiting for its first
\* candidate now is.
LoadStartedStep ==
    \E l \in LoadIds :
        /\ loadPc[l] \in {"idle", "done", "failed"}
        /\ loadPc'[l] = "fetch"
        /\ loadCand'[l] = 1

C2_GateFollowsFlag ==
    /\ [](flag = today => unlockedOn = today)
    /\ [][ev'.op = "checkAuth" =>
            IF flag = today
            THEN /\ dom'.dashHidden = FALSE
                 /\ dom'.overlayHidden = TRUE
                 /\ Cardinality({l \in LoadIds : loadPc'[l] = "fetch"}) = 1
                 /\ \A l \in LoadIds : loadPc'[l] \in {"fetch", "idle"}
            ELSE /\ dom'.dashHidden = TRUE
                 /\ dom'.overlayHidden = FALSE
                 /\ \A l \in LoadIds : loadPc'[l] = "idle"]_vars

\* C2 witness: a gate check has found a flag of an earlier day and left the
\* page locked.
C2_Witness ==
    /\ ev.op = "checkAuth"
    /\ flag # NoFlag
    /\ flag # today
    /\ dom.dashHidden
    /\ ~dom.overlayHidden

\* A read that the loader gives up on.
IsFailedRead(e) ==
    \/ e.op = "fetch" /\ e.out \in {"neterr", "notok"}
    \/ e.op = "json" /\ e.out = "malformed"

\* C3: the candidates are read in the order daily, latest; a read that
\* yields a parsed payload ends the load with that payload rendered and
\* held; the demo data is rendered exactly when both reads failed, and
\* stat-chance then shows 2.
C3_FirstGoodCandidate ==
    [][ev'.op \in {"fetch", "json"} =>
        /\ urls[loadCand[ev'.n]] =
              (IF loadFirst[ev'.n] = "none" THEN "daily" ELSE "latest")
        /\ (ev'.op = "json" /\ ev'.out \in PayloadNames =>
              /\ loadPc'[ev'.n] = "done"
              /\ ev'.rendered = ev'.out
              /\ currentData' = Data(ev'.out))
        /\ (ev'.rendered = "demo" <=>
              /\ loadCand[ev'.n] = Len(urls)
              /\ loadFirst[ev'.n] = "fail"
              /\ IsFailedRead(ev'))
        /\ (ev'.rendered = "demo" => dom'.statChance = 2)]_vars

\* C4: no load fails, and every load that waits for a read ends with a
\* snapshot rendered to the end.
C4_LoadCompletes ==
    /\ [](\A l \in LoadIds : loadPc[l] # "failed")
    /\ \A l \in LoadIds : (loadPc[l] \in {"fetch", "json"}) ~> (loadPc[l] = "done")

\* C4 witness: a load has ended with the demo data after the payload of its
\* last candidate threw in the render.
C4_Witness ==
    /\ ev.op = "json"
    /\ ev.out \in {"PNull", "PBad"}
    /\ ev.rendered = "demo"
    /\ loadPc[ev.n] = "done"
    /\ currentData = getDemoData

\* C5: after a render the stats and the banner are those the rendered
\* snapshot gives on a fresh page; with an empty chance_races the banner is
\* hidden and the lowest and ticket stats show nothing of an earlier one.
C5_RenderReplaces ==
    (ev.op \in {"fetch", "json"} /\ ev.rendered # "none") =>
        LET fresh == renderDashboard(InitialDom, currentData).dom
        IN /\ dom.bannerHidden = fresh.bannerHidden
           /\ dom.statLowest = fresh.statLowest
           /\ dom.statTickets = fresh.statTickets
           /\ dom.alertCount = fresh.alertCount
           /\ dom.alertLowest = fresh.alertLowest

\* C6: at most one error clear is pending, and while the clear of the last
\* mismatch is pending its message is on display.
C6_SingleClear ==
    /\ Len(timers) <= 1
    /\ (timers # <<>> => dom.authError)

\* selectRace(index) finds no race: no snapshot, no chance_races, or the
\* index outside of it.
NoRaceAt(cur, index) ==
    \/ cur.isNull
    \/ ~cur.hasRaces
    \/ index + 1 \notin 1..Len(cur.chance_races)

\* C7: selectRace with no snapshot, no chance_races or an index out of
\* range changes neither the page (ticket list, venue selection, ranking)
\* nor the held snapshot.
C7_SelectNoOp ==
    [][(ev'.op \in {"select", "click"} /\ NoRaceAt(currentData, ev'.n)) =>
        (dom' = dom /\ currentData' = currentData)]_vars

\* C7 witness: selectRace has run with an index past the end of the held
\* snapshot's races while tickets of a race were on display.
C7_Witness ==
    /\ ev.op = "select"
    /\ ~currentData.isNull
    /\ currentData.hasRaces
    /\ ev.n >= Len(currentData.chance_races)
    /\ dom.ticketList.kind = "tickets"

\* C8: after selectRace(index) with a race at index, the ticket list shows
\* that race's tickets, and no tickets at all when the race has none or no
\* tickets field; the venue selection is the race's venue and the ranking
\* panel is that venue's.
C8_SelectShowsRace ==
    (/\ ev.op \in {"select", "click"}
     /\ ~NoRaceAt(currentData, ev.n)
     /\ ~currentData.chance_races[ev.n + 1].isNull) =>
        LET race == currentData.chance_races[ev.n + 1]
        IN /\ IF race.hasTickets /\ Len(race.tickets) > 0
              THEN dom.ticketList = renderTickets(dom, race.tickets).ticketList
              ELSE dom.ticketList.kind # "tickets"
           /\ dom.selectValue = race.venue
           /\ dom.ranking = renderVenueRanking(dom, currentData, race.venue).ranking

\* The minimum of boat1_win_prob with only an absent value read as 1.0.
RECURSIVE MinProbAbsentAsOne(_)
MinProbAbsentAsOne(races) ==
    LET p == IF Head(races).boat1_win_prob = Absent THEN 1000
             ELSE Head(races).boat1_win_prob
    IN IF Len(races) = 1 THEN p ELSE Min(p, MinProbAbsentAsOne(Tail(races)))

\* C9: after a render of a snapshot with races, stat-lowest shows the
\* minimum of boat1_win_prob in which only an absent value counts as 1.0.
C9_LowestIsMin ==
    (/\ ev.op \in {"fetch", "json"}
     /\ ev.rendered # "none"
     /\ Len(ChanceRacesOf(currentData)) > 0) =>
        dom.statLowest = Percent(MinProbAbsentAsOne(ChanceRacesOf(currentData)))

\* C10: when a card click has run, the cards on screen are those of the
\* held snapshot's races.
C10_ClickOnHeldSnapshot ==
    ev.op = "click" =>
        dom.cards = renderChanceRaces(dom, ChanceRacesOf(currentData)).cards

====
